---- MODULE Spec2Model ----
(***************************************************************************)
(* A model of build_network.py: the one-pass pipeline                      *)
(*   edges.csv -> load_edges -> build_graph -> positions ->                *)
(*   make_edge_trace (aggregate and per theme) -> menu -> write_html.      *)
(*                                                                         *)
(* The run starts at main(); the import-time creation of the assets        *)
(* directory is not part of it.  write_html either writes the whole        *)
(* document or fails before writing.                                       *)
(*                                                                         *)
(* Strings are sequences of one-character strings, so that strip, lower,   *)
(* split and join are computed and not assumed.  Python dictionaries       *)
(* (the node and adjacency dictionaries of networkx.Graph, the position    *)
(* map) are insertion-ordered sequences of [k, v] entries, so that         *)
(* iteration order and key uniqueness are consequences of the operations.  *)
(***************************************************************************)
EXTENDS Integers, Sequences, FiniteSets, TLC

VARIABLES
    pc,           \* position of main(): the statement that runs next
    fileExists,   \* csv_path.exists()
    header,       \* first line of edges.csv: its column names
    csv,          \* the data lines of edges.csv, each a sequence of cells
    edges,        \* main's `edges`
    G,            \* main's `G`
    pos,          \* main's `pos`
    all_themes,   \* main's `all_themes`
    traces,       \* main's `traces`
    theme_traces, \* main's `theme_traces`
    buttons,      \* main's `buttons`
    outFile,      \* content of assets/interactive.html
    exitCode,     \* process exit status, -1 while running
    stderr        \* what the run printed on stderr

vars == <<pc, fileExists, header, csv, edges, G, pos, all_themes, traces,
          theme_traces, buttons, outFile, exitCode, stderr>>

----------------------------------------------------------------------------
(* Bounds of the checked input space *)

\* most data lines in edges.csv
MaxRows == 2
\* most characters in the themes cell of the theme-parsing inputs
MaxThemeCell == 3

----------------------------------------------------------------------------
(* Characters and strings *)

\* ord(c) for the characters of the input alphabet
Ord(c) ==
    CASE c = " " -> 32 [] c = "," -> 44 [] c = ";" -> 59
      [] c = "1" -> 49 [] c = "2" -> 50 [] c = "3" -> 51
      [] c = "A" -> 65 [] c = "B" -> 66 [] c = "C" -> 67
      [] c = "a" -> 97 [] c = "b" -> 98 [] c = "c" -> 99 [] c = "n" -> 110
      [] c = "x" -> 120

\* str.isspace on one character
IsSpace(c) == c = " "

\* str.lower on one character
LowerChar(c) ==
    CASE c = "A" -> "a" [] c = "B" -> "b" [] c = "C" -> "c" [] OTHER -> c

\* str.lower
Lower(s) == [i \in 1..Len(s) |-> LowerChar(s[i])]

\* str.strip: drop leading and trailing whitespace
Strip(s) ==
    LET keep == {i \in 1..Len(s) : ~IsSpace(s[i])}
    IN  IF keep = {} THEN <<>>
        ELSE LET lo == CHOOSE i \in keep : \A j \in keep : i <= j
                 hi == CHOOSE i \in keep : \A j \in keep : j <= i
             IN  SubSeq(s, lo, hi)

\* str.split(sep) for a one-character sep: always at least one token
RECURSIVE Split(_, _)
Split(s, sep) ==
    LET at == {i \in 1..Len(s) : s[i] = sep}
    IN  IF at = {} THEN <<s>>
        ELSE LET i == CHOOSE k \in at : \A j \in at : k <= j
             IN  <<SubSeq(s, 1, i - 1)>> \o Split(SubSeq(s, i + 1, Len(s)), sep)

\* sep.join(parts)
RECURSIVE Join(_, _)
Join(sep, parts) ==
    IF parts = <<>> THEN <<>>
    ELSE IF Len(parts) = 1 THEN parts[1]
    ELSE parts[1] \o sep \o Join(sep, Tail(parts))

\* s < t in Python's string order (code points, a proper prefix first)
RECURSIVE StrLess(_, _)
StrLess(s, t) ==
    IF t = <<>> THEN FALSE
    ELSE IF s = <<>> THEN TRUE
    ELSE IF Ord(s[1]) # Ord(t[1]) THEN Ord(s[1]) < Ord(t[1])
    ELSE StrLess(Tail(s), Tail(t))

\* the value of a digit of the input alphabet, -1 for any other character
DigitValue(c) == CASE c = "1" -> 1 [] c = "2" -> 2 [] c = "3" -> 3 [] OTHER -> 0 - 1

\* int(s) succeeds: digits, surrounding whitespace allowed
IsIntLiteral(s) ==
    /\ Strip(s) # <<>>
    /\ \A i \in 1..Len(Strip(s)) : DigitValue(Strip(s)[i]) >= 0

\* int(s) for a string int() accepts
RECURSIVE DecimalValue(_)
DecimalValue(d) ==
    IF d = <<>> THEN 0
    ELSE 10 * DecimalValue(SubSeq(d, 1, Len(d) - 1)) + DigitValue(d[Len(d)])

ParseInt(s) == DecimalValue(Strip(s))

----------------------------------------------------------------------------
(* Python dictionaries: insertion-ordered sequences of [k, v] entries *)

\* k in d
DictHas(d, k) == \E i \in 1..Len(d) : d[i].k = k

\* d[k]
DictGet(d, k) == d[CHOOSE i \in 1..Len(d) : d[i].k = k].v

\* d[k] = v: an existing key keeps its place, a new key goes last
DictSet(d, k, v) ==
    IF DictHas(d, k)
    THEN [i \in 1..Len(d) |-> IF d[i].k = k THEN [k |-> k, v |-> v] ELSE d[i]]
    ELSE Append(d, [k |-> k, v |-> v])

\* list(d)
DictKeys(d) == [i \in 1..Len(d) |-> d[i].k]

\* an attribute dictionary (keyword arguments) is a function on its keys
EmptyAttr == [k \in {} |-> 0]

\* setdefault in place of update: a key already set keeps its value
AttrUpdate_keep(old, new) ==
    [k \in DOMAIN old \cup DOMAIN new |-> IF k \in DOMAIN old THEN old[k] ELSE new[k]]

\* old.update(new)
AttrUpdate(old, new) ==
    [k \in DOMAIN old \cup DOMAIN new |-> IF k \in DOMAIN new THEN new[k] ELSE old[k]]

\* the elements of a sequence
Range(s) == {s[i] : i \in 1..Len(s)}

----------------------------------------------------------------------------
(* csv.DictReader and load_edges *)

FullHeader ==
    <<"source_title", "source_year", "target_title", "target_year",
      "weight", "themes", "note">>

\* the value DictReader stores for a column the line is too short for
Missing == <<"None">>

\* column `col` is a key of the row dictionary
HasColumn(hdr, col) == col \in Range(hdr)

\* row[col] of the dictionary DictReader builds from one data line
Cell(hdr, line, col) ==
    LET i == CHOOSE k \in 1..Len(hdr) : hdr[k] = col
    IN  IF i <= Len(line) THEN line[i] ELSE Missing

\* row.get(col, ""): the default only when the header lacks the column
CellOr(hdr, line, col) ==
    IF HasColumn(hdr, col) THEN Cell(hdr, line, col) ELSE <<>>

\* normalize_theme
normalize_theme(t) == Lower(Strip(t))

\* [normalize_theme(t) for t in cell.split(";") if t.strip()]
ParseThemes(cell) ==
    LET toks == Split(cell, ";")
        kept == SelectSeq(toks, LAMBDA t : Strip(t) # <<>>)
    IN  [i \in 1..Len(kept) |-> normalize_theme(kept[i])]

\* the loop body of load_edges raises on this line: a required column is
\* not in the header (KeyError), a cell is None (TypeError, AttributeError),
\* or int() rejects a cell (ValueError)
RowRaises(hdr, line) ==
    \/ \E c \in {"source_title", "source_year", "target_title", "target_year", "weight"} :
          ~HasColumn(hdr, c)
    \/ \E c \in Range(hdr) \cap Range(FullHeader) : Cell(hdr, line, c) = Missing
    \/ \E c \in {"source_year", "target_year", "weight"} :
          ~IsIntLiteral(Cell(hdr, line, c))

\* the tuple load_edges appends for one line
EdgeRecord(hdr, line) ==
    [src    |-> Strip(Cell(hdr, line, "source_title")),
     sy     |-> ParseInt(Cell(hdr, line, "source_year")),
     tgt    |-> Strip(Cell(hdr, line, "target_title")),
     ty     |-> ParseInt(Cell(hdr, line, "target_year")),
     w      |-> ParseInt(Cell(hdr, line, "weight")),
     themes |-> ParseThemes(CellOr(hdr, line, "themes")),
     note   |-> Strip(CellOr(hdr, line, "note"))]

\* load_edges raises
LoadRaises(hdr, lines) == \E i \in 1..Len(lines) : RowRaises(hdr, lines[i])

\* load_edges returns
load_edges(hdr, lines) == [i \in 1..Len(lines) |-> EdgeRecord(hdr, lines[i])]

----------------------------------------------------------------------------
(* networkx.Graph, as build_graph uses it *)

\* nx.Graph(): the node dictionary and the adjacency dictionary
EmptyGraph == [node |-> <<>>, adj |-> <<>>]

\* G.add_node(n, **attr): a new node goes last in both dictionaries, a
\* known node keeps its place and has its attributes updated
add_node(g, n, attr) ==
    IF DictHas(g.node, n)
    THEN [g EXCEPT !.node = DictSet(g.node, n, AttrUpdate(DictGet(g.node, n), attr))]
    ELSE [node |-> DictSet(g.node, n, AttrUpdate(EmptyAttr, attr)),
          adj  |-> DictSet(g.adj, n, <<>>)]

\* G.add_edge(u, v, **attr): the attribute dictionary of the pair, updated,
\* is stored under adj[u][v] and under adj[v][u]
add_edge(g, u, v, attr) ==
    LET g1 == IF DictHas(g.node, u) THEN g ELSE add_node(g, u, EmptyAttr)
        g2 == IF DictHas(g1.node, v) THEN g1 ELSE add_node(g1, v, EmptyAttr)
        nu == DictGet(g2.adj, u)
        dd == AttrUpdate(IF DictHas(nu, v) THEN DictGet(nu, v) ELSE EmptyAttr, attr)
        a1 == DictSet(g2.adj, u, DictSet(nu, v, dd))
        a2 == DictSet(a1, v, DictSet(DictGet(a1, v), u, dd))
    IN  [g2 EXCEPT !.adj = a2]

\* the loop body with the two add_node calls in the other order
AddRecord_target_first(g, e) ==
    LET g1 == add_node(g, e.tgt, [year |-> e.ty])
        g2 == add_node(g1, e.src, [year |-> e.sy])
    IN  add_edge(g2, e.src, e.tgt, [weight |-> e.w, themes |-> e.themes, note |-> e.note])

\* one iteration of build_graph's loop
AddRecord(g, e) ==
    LET g1 == add_node(g, e.src, [year |-> e.sy])
        g2 == add_node(g1, e.tgt, [year |-> e.ty])
    IN  add_edge(g2, e.src, e.tgt, [weight |-> e.w, themes |-> e.themes, note |-> e.note])

\* build_graph
RECURSIVE BuildFrom(_, _)
BuildFrom(g, es) ==
    IF es = <<>> THEN g ELSE BuildFrom(AddRecord(g, es[1]), Tail(es))

build_graph(es) == BuildFrom(EmptyGraph, es)

\* list(G.nodes())
Nodes(g) == DictKeys(g.node)

\* G.nodes[n]["year"]
YearOf(g, n) == DictGet(g.node, n)["year"]

\* G.edges(data=True): every node in node order, its neighbours in
\* adjacency order, a pair being reported from the endpoint that comes
\* first in node order (the other endpoint is then already `seen`)
RECURSIVE EdgesFrom(_, _)
EdgesFrom(g, i) ==
    IF i > Len(g.adj) THEN <<>>
    ELSE LET n    == g.adj[i].k
             seen == {g.adj[j].k : j \in 1..(i - 1)}
             nbrs == SelectSeq(g.adj[i].v, LAMBDA en : en.k \notin seen)
         IN  [j \in 1..Len(nbrs) |-> [u |-> n, v |-> nbrs[j].k, data |-> nbrs[j].v]]
             \o EdgesFrom(g, i + 1)

Edges(g) == EdgesFrom(g, 1)

\* G.degree(n): a self-loop counts twice
Degree(g, n) ==
    LET nb == DictGet(g.adj, n)
    IN  Len(nb) + (IF DictHas(nb, n) THEN 1 ELSE 0)

\* nx.degree_centrality(G)[n], as the fraction num/den
degree_centrality(g, n) ==
    IF Len(g.node) <= 1 THEN [num |-> 1, den |-> 1]
    ELSE [num |-> Degree(g, n), den |-> Len(g.node) - 1]

----------------------------------------------------------------------------
(* positions *)

\* an unstable sort: x goes in front of the elements of equal key
InsertByYear_unstable(g, s, x) ==
    LET before == {i \in 1..Len(s) : YearOf(g, s[i]) < YearOf(g, x)}
        k == Cardinality(before)
    IN  SubSeq(s, 1, k) \o <<x>> \o SubSeq(s, k + 1, Len(s))

\* sorted(): insert x behind every element whose key is not larger
InsertByYear(g, s, x) ==
    LET before == {i \in 1..Len(s) : YearOf(g, s[i]) <= YearOf(g, x)}
        k == Cardinality(before)
    IN  SubSeq(s, 1, k) \o <<x>> \o SubSeq(s, k + 1, Len(s))

\* sorted(G.nodes(), key=lambda n: G.nodes[n]["year"]), a stable sort
RECURSIVE SortByYear(_, _)
SortByYear(g, ns) ==
    IF ns = <<>> THEN <<>>
    ELSE InsertByYear(g, SortByYear(g, SubSeq(ns, 1, Len(ns) - 1)), ns[Len(ns)])

\* {n: i for i, n in enumerate(nodes_sorted)}
RECURSIVE Enumerate(_, _)
Enumerate(s, i) ==
    IF i = 0 THEN <<>> ELSE DictSet(Enumerate(s, i - 1), s[i], i - 1)

\* positions(G)
positions(g) ==
    LET nodes_sorted == SortByYear(g, Nodes(g))
        y_positions  == Enumerate(nodes_sorted, Len(nodes_sorted))
        ns           == Nodes(g)
    IN  [i \in 1..Len(ns) |->
            [k |-> ns[i], v |-> <<YearOf(g, ns[i]), DictGet(y_positions, ns[i])>>]]

----------------------------------------------------------------------------
(* make_edge_trace *)

\* Python's None in a coordinate list
None == "None"

\* lambda u,v,d: True
AllFilter == [all |-> TRUE, th |-> <<>>]

\* lambda u,v,d, th=theme: th in d.get("themes", [])
ThemeFilter(theme) == [all |-> FALSE, th |-> theme]

\* filter_func(u, v, data)
filter_func(f, u, v, data) == f.all \/ f.th \in Range(data["themes"])

\* str(weight) for the weights main passes
WeightChar(w) == CASE w = 1 -> "1" [] w = 2 -> "2" [] w = 3 -> "3" [] OTHER -> "?"

\* the name_suffix main passes: "_all_w2", f"_{theme}_w2", ...
NameSuffix(label, w) == <<"_">> \o label \o <<"_", "w", WeightChar(w)>>

AllLabel == <<"a", "l", "l">>

\* the weight test written as a threshold: data["weight"] < weight skips
Accepted_threshold(g, f, weight) ==
    SelectSeq(Edges(g),
              LAMBDA e : filter_func(f, e.u, e.v, e.data) /\ e.data["weight"] >= weight)

\* the edges the loop of make_edge_trace does not skip
Accepted(g, f, weight) ==
    SelectSeq(Edges(g),
              LAMBDA e : filter_func(f, e.u, e.v, e.data) /\ e.data["weight"] = weight)

\* the hover block of one edge: its four <br>-separated lines; "->" is the
\* arrow character and "--" the dash character of the source
HoverText(e) ==
    [label     |-> e.u \o <<" ", "->", " ">> \o e.v,
     themes    |-> IF Join(<<",", " ">>, e.data["themes"]) = <<>>
                   THEN <<"--">> ELSE Join(<<",", " ">>, e.data["themes"]),
     influence |-> e.data["weight"],
     note      |-> e.data["note"]]

\* x (c = 1) or y (c = 2): [x0, x1, None] per accepted edge
Coordinates(p, acc, c) ==
    [i \in 1..(3 * Len(acc)) |->
        LET e == acc[(i + 2) \div 3]
        IN  IF i % 3 = 1 THEN DictGet(p, e.u)[c]
            ELSE IF i % 3 = 2 THEN DictGet(p, e.v)[c]
            ELSE None]

\* make_edge_trace whose placeholder leaves `visible` at its default
make_edge_trace_shown(g, p, f, weight, name_suffix) ==
    LET acc == Accepted(g, f, weight)
        x   == Coordinates(p, acc, 1)
        y   == Coordinates(p, acc, 2)
    IN  IF x = <<>>
        THEN [x |-> <<None>>, y |-> <<None>>, mode |-> "lines",
              width |-> [num |-> 1, den |-> 1], text |-> <<>>, visible |-> TRUE,
              name |-> [head |-> "edges", suffix |-> name_suffix, w |-> <<>>]]
        ELSE [x |-> x, y |-> y, mode |-> "lines",
              width |-> [num |-> 5 * weight, den |-> 2],
              text |-> [i \in 1..Len(acc) |-> HoverText(acc[i])], visible |-> TRUE,
              name |-> [head |-> "Edges", suffix |-> name_suffix, w |-> <<weight>>]]

\* make_edge_trace(G, pos, filter_func, weight, name_suffix); `visible` is
\* TRUE where the Scatter leaves it at its default
make_edge_trace(g, p, f, weight, name_suffix) ==
    LET acc == Accepted(g, f, weight)
        x   == Coordinates(p, acc, 1)
        y   == Coordinates(p, acc, 2)
    IN  IF x = <<>>
        THEN [x |-> <<None>>, y |-> <<None>>, mode |-> "lines",
              width |-> [num |-> 1, den |-> 1], text |-> <<>>, visible |-> FALSE,
              name |-> [head |-> "edges", suffix |-> name_suffix, w |-> <<>>]]
        ELSE [x |-> x, y |-> y, mode |-> "lines",
              width |-> [num |-> 5 * weight, den |-> 2],
              text |-> [i \in 1..Len(acc) |-> HoverText(acc[i])], visible |-> TRUE,
              name |-> [head |-> "Edges", suffix |-> name_suffix, w |-> <<weight>>]]

\* the node trace of main
NodeTrace(g, p) ==
    LET ns == Nodes(g)
    IN  [x |-> [i \in 1..Len(ns) |-> DictGet(p, ns[i])[1]],
         y |-> [i \in 1..Len(ns) |-> DictGet(p, ns[i])[2]],
         mode |-> "markers+text",
         text |-> [i \in 1..Len(ns) |-> [title |-> ns[i], year |-> YearOf(g, ns[i])]],
         cent |-> [i \in 1..Len(ns) |-> degree_centrality(g, ns[i])],
         visible |-> TRUE,
         name |-> [head |-> "Works", suffix |-> <<>>, w |-> <<>>]]

----------------------------------------------------------------------------
(* main: themes, traces, menu *)

\* sorted(S) for a set of strings
RECURSIVE SortedStrings(_)
SortedStrings(S) ==
    IF S = {} THEN <<>>
    ELSE LET m == CHOOSE a \in S : \A b \in S : ~StrLess(b, a)
         IN  <<m>> \o SortedStrings(S \ {m})

\* the themes in order of first appearance, the sort forgotten
RECURSIVE FirstSeenThemes(_)
FirstSeenThemes(ts) ==
    IF ts = <<>> THEN <<>>
    ELSE LET front == FirstSeenThemes(SubSeq(ts, 1, Len(ts) - 1))
         IN  IF ts[Len(ts)] \in Range(front) THEN front ELSE Append(front, ts[Len(ts)])

RECURSIVE Flatten(_)
Flatten(ss) == IF ss = <<>> THEN <<>> ELSE ss[1] \o Flatten(Tail(ss))

AllThemes_unsorted(es) == FirstSeenThemes(Flatten([i \in 1..Len(es) |-> es[i].themes]))

\* sorted({t for _,_,_,_,_,ts,_ in edges for t in ts})
AllThemes(es) == SortedStrings(UNION {Range(es[i].themes) : i \in 1..Len(es)})

\* theme_traces: one (theme, tr_w2, tr_w3) per theme
ThemeTraces(g, p, themes) ==
    [i \in 1..Len(themes) |->
        [theme |-> themes[i],
         w2 |-> make_edge_trace(g, p, ThemeFilter(themes[i]), 2, NameSuffix(themes[i], 2)),
         w3 |-> make_edge_trace(g, p, ThemeFilter(themes[i]), 3, NameSuffix(themes[i], 3))]]

\* traces.extend([tr_w2, tr_w3]) for every element of theme_traces
RECURSIVE Pairs(_)
Pairs(tt) ==
    IF tt = <<>> THEN <<>> ELSE <<tt[1].w2, tt[1].w3>> \o Pairs(Tail(tt))

\* main's traces: aggregate w2 and w3, the per-theme pairs, the node trace
Traces(g, p, tt) ==
    <<make_edge_trace(g, p, AllFilter, 2, NameSuffix(AllLabel, 2)),
      make_edge_trace(g, p, AllFilter, 3, NameSuffix(AllLabel, 3))>>
    \o Pairs(tt) \o <<NodeTrace(g, p)>>

\* theme_names.index(theme), 0-based: the first occurrence
IndexOf(names, x) ==
    (CHOOSE i \in 1..Len(names) : names[i] = x /\ \A j \in 1..(i - 1) : names[j] # x) - 1

\* vis_all(), as the 0-based list vis[0..num_traces-1]
vis_all(num_traces) ==
    LET node_idx == num_traces - 1
    IN  [i \in 1..num_traces |-> (i - 1) \in {0, 1, node_idx}]

\* vis_for_theme with the pair stride forgotten: base = 2 + t_idx
vis_for_theme_stride1(num_traces, tt, theme) ==
    LET node_idx    == num_traces - 1
        theme_names == [i \in 1..Len(tt) |-> tt[i].theme]
        base        == 2 + IndexOf(theme_names, theme)
    IN  [i \in 1..num_traces |-> (i - 1) \in {base, base + 1, node_idx}]

\* vis_for_theme(theme)
vis_for_theme(num_traces, tt, theme) ==
    LET node_idx    == num_traces - 1
        theme_names == [i \in 1..Len(tt) |-> tt[i].theme]
        base        == 2 + IndexOf(theme_names, theme) * 2
    IN  [i \in 1..num_traces |-> (i - 1) \in {base, base + 1, node_idx}]

\* main's buttons
Buttons(trs, tt) ==
    <<[label |-> <<"All themes">>, visible |-> vis_all(Len(trs))]>>
    \o [i \in 1..Len(tt) |->
          [label |-> tt[i].theme, visible |-> vis_for_theme(Len(trs), tt, tt[i].theme)]]

----------------------------------------------------------------------------
(* The run of main() *)

NoFile  == [exists |-> FALSE, traces |-> <<>>, buttons |-> <<>>]
OldFile == [exists |-> TRUE, traces |-> <<>>, buttons |-> <<>>]

\* the state main() starts in, for a given set of input files
InitWith(headers, files, outs) ==
    /\ pc = "exists"
    /\ fileExists \in BOOLEAN
    /\ header \in headers
    /\ csv \in files
    /\ ~fileExists => (header = FullHeader /\ csv = <<>>)
    /\ edges = <<>>
    /\ G = EmptyGraph
    /\ pos = <<>>
    /\ all_themes = <<>>
    /\ traces = <<>>
    /\ theme_traces = <<>>
    /\ buttons = <<>>
    /\ outFile \in outs
    /\ exitCode = 0 - 1
    /\ stderr = ""

\* lines 91-94: csv_path.exists()
CheckCsv ==
    /\ pc = "exists"
    /\ IF fileExists
       THEN pc' = "load" /\ UNCHANGED <<exitCode, stderr>>
       ELSE pc' = "exited" /\ exitCode' = 1 /\ stderr' = "CSV not found"
    /\ UNCHANGED <<fileExists, header, csv, edges, G, pos, all_themes, traces,
                   theme_traces, buttons, outFile>>

\* line 96: edges = load_edges(csv_path); an exception is not caught
LoadEdges ==
    /\ pc = "load"
    /\ IF LoadRaises(header, csv)
       THEN pc' = "raised" /\ exitCode' = 1 /\ stderr' = "Traceback"
            /\ UNCHANGED edges
       ELSE pc' = "check" /\ edges' = load_edges(header, csv)
            /\ UNCHANGED <<exitCode, stderr>>
    /\ UNCHANGED <<fileExists, header, csv, G, pos, all_themes, traces,
                   theme_traces, buttons, outFile>>

\* the emptiness check left out: the run goes on with no edge
CheckEdges_skipped ==
    /\ pc = "check"
    /\ pc' = "build"
    /\ UNCHANGED <<fileExists, header, csv, edges, G, pos, all_themes, traces,
                   theme_traces, buttons, outFile, exitCode, stderr>>

\* lines 97-99: if not edges
CheckEdges ==
    /\ pc = "check"
    /\ IF edges = <<>>
       THEN pc' = "exited" /\ exitCode' = 1 /\ stderr' = "No edges found"
       ELSE pc' = "build" /\ UNCHANGED <<exitCode, stderr>>
    /\ UNCHANGED <<fileExists, header, csv, edges, G, pos, all_themes, traces,
                   theme_traces, buttons, outFile>>

\* line 101
BuildGraph ==
    /\ pc = "build"
    /\ G' = build_graph(edges)
    /\ pc' = "layout"
    /\ UNCHANGED <<fileExists, header, csv, edges, pos, all_themes, traces,
                   theme_traces, buttons, outFile, exitCode, stderr>>

\* line 102
Layout ==
    /\ pc = "layout"
    /\ pos' = positions(G)
    /\ pc' = "traces"
    /\ UNCHANGED <<fileExists, header, csv, edges, G, all_themes, traces,
                   theme_traces, buttons, outFile, exitCode, stderr>>

\* lines 104-136
BuildTraces ==
    /\ pc = "traces"
    /\ all_themes' = AllThemes(edges)
    /\ theme_traces' = ThemeTraces(G, pos, all_themes')
    /\ traces' = Traces(G, pos, theme_traces')
    /\ pc' = "menu"
    /\ UNCHANGED <<fileExists, header, csv, edges, G, pos, buttons, outFile,
                   exitCode, stderr>>

\* lines 138-172
BuildMenu ==
    /\ pc = "menu"
    /\ buttons' = Buttons(traces, theme_traces)
    /\ pc' = "write"
    /\ UNCHANGED <<fileExists, header, csv, edges, G, pos, all_themes, traces,
                   theme_traces, outFile, exitCode, stderr>>

\* lines 174-176: write_html writes the whole document, or the destination
\* cannot be opened and the exception is not caught
WriteHtml ==
    /\ pc = "write"
    /\ \E writable \in BOOLEAN :
          IF writable
          THEN /\ outFile' = [exists |-> TRUE, traces |-> traces, buttons |-> buttons]
               /\ pc' = "done" /\ exitCode' = 0 /\ UNCHANGED stderr
          ELSE /\ pc' = "raised" /\ exitCode' = 1 /\ stderr' = "Traceback"
               /\ UNCHANGED outFile
    /\ UNCHANGED <<fileExists, header, csv, edges, G, pos, all_themes, traces,
                   theme_traces, buttons>>

Next ==
    \/ CheckCsv
    \/ LoadEdges
    \/ CheckEdges
    \/ BuildGraph
    \/ Layout
    \/ BuildTraces
    \/ BuildMenu
    \/ WriteHtml

----------------------------------------------------------------------------
(* Input files *)

\* every file of at most n data lines over a set of lines
Files(lines, n) == UNION {[1..k -> lines] : k \in 0..n}

TitleA == <<"A">>
TitleB == <<"B">>
TitleC == <<"C">>

\* data lines no int() accepts, or too short for the header
BadLines ==
    {<<TitleA, <<"1">>, TitleB, <<"1">>, <<"x">>, <<"a">>, <<>>>>,
     <<TitleA, <<"1">>, TitleB, <<"1">>, <<"2">>>>}

\* lines that vary endpoints, weight and themes
LinesThemes ==
    {<<s, <<"1">>, t, <<"1">>, w, th, <<>>>> :
        s \in {TitleA}, t \in {TitleA, TitleB},
        w \in {<<"1">>, <<"2">>, <<"3">>},
        th \in {<<>>, <<"a">>, <<"b", ";", "a">>}}

\* lines that vary endpoints and years
LinesYears ==
    {<<s, sy, t, ty, <<"2">>, <<"a">>, <<>>>> :
        s \in {TitleA, TitleB}, t \in {TitleA, TitleB, TitleC},
        sy \in {<<"1">>, <<"2">>}, ty \in {<<"1">>, <<"2">>}}

\* lines that vary endpoints and all three edge attributes
LinesAttrs ==
    {<<s, <<"1">>, t, <<"2">>, w, th, n>> :
        s \in {TitleA, TitleB}, t \in {TitleA, TitleB},
        w \in {<<"1">>, <<"3">>},
        th \in {<<"a">>, <<"b">>},
        n \in {<<>>, <<"n">>}}

\* every string of at most n characters over an alphabet
Strings(alphabet, n) == UNION {[1..k -> alphabet] : k \in 0..n}

\* one line per themes cell
LinesCells ==
    {<<<<" ", "A">>, <<" ", "1">>, TitleB, <<"2">>, <<"3">>, th, <<"n", " ">>>> :
        th \in Strings({"a", "A", "b", " ", ";"}, MaxThemeCell)}

\* headers without the optional columns, and without a required one
Headers ==
    {FullHeader, SubSeq(FullHeader, 1, 5), SubSeq(FullHeader, 1, 4)}

Init == InitWith({FullHeader}, Files(LinesThemes \cup BadLines, MaxRows), {NoFile})

InitYears == InitWith({FullHeader}, Files(LinesYears \cup BadLines, MaxRows), {NoFile})

InitAttrs == InitWith({FullHeader}, Files(LinesAttrs \cup BadLines, MaxRows), {NoFile})

InitCells ==
    InitWith(Headers, Files(LinesCells \cup BadLines, 1), {NoFile, OldFile})

\* edges.csv varies endpoints, weights and themes
Spec == Init /\ [][Next]_vars

\* edges.csv varies endpoints and years
SpecYears == InitYears /\ [][Next]_vars

\* edges.csv varies endpoints and edge attributes
SpecAttrs == InitAttrs /\ [][Next]_vars

\* edges.csv has one line, of any themes cell, under any header
SpecCells == InitCells /\ [][Next]_vars

----------------------------------------------------------------------------
(* Properties of the traces and of the menu *)

\* the distinct normalized themes over all rows
RowThemes == UNION {Range(edges[i].themes) : i \in 1..Len(edges)}

\* the number of themes that sort before t
Rank(t) == Cardinality({u \in RowThemes : StrLess(u, t)})

\* the place in `traces` (from 1) of the trace of theme t and weight w
SlotOf(t, w) == 2 + 2 * Rank(t) + (w - 1)

\* the trace main builds for theme t and weight w
TraceFor(t, w) == make_edge_trace(G, pos, ThemeFilter(t), w, NameSuffix(t, w))

\* the places (from 1) a visibility vector shows
Shown(vis) == {i \in 1..Len(vis) : vis[i]}

\* the menu has been built
MenuBuilt == pc \in {"write", "done"} \/ (pc = "raised" /\ buttons # <<>>)

\* the traces have been built
TracesBuilt == pc = "menu" \/ MenuBuilt

\* C1: every menu option's visibility vector is as long as the trace list
\* and shows exactly three traces: "All themes" the two aggregate traces
\* (indices 0 and 1) and the node trace, the option of theme T the two traces
\* built with the filter "T in the edge's themes" and the node trace; the
\* node trace, at the last index, is shown under every option, also when
\* the input has no theme.
C1_MenuVisibility ==
    MenuBuilt =>
        LET n == Len(traces)
        IN  /\ \A b \in 1..Len(buttons) :
                  /\ Len(buttons[b].visible) = n
                  /\ Cardinality(Shown(buttons[b].visible)) = 3
                  /\ buttons[b].visible[n]
            /\ buttons[1].label = <<"All themes">>
            /\ Shown(buttons[1].visible) = {1, 2, n}
            /\ traces[n].name.head = "Works"
            /\ \A b \in 2..Len(buttons) :
                  Shown(buttons[b].visible) =
                      {i \in 1..(n - 1) :
                          \/ traces[i] = TraceFor(buttons[b].label, 2)
                          \/ traces[i] = TraceFor(buttons[b].label, 3)} \cup {n}

\* a menu with two theme options, one of them showing an edge
C1_Witness ==
    /\ pc = "done"
    /\ Len(buttons) = 3
    /\ \E b \in 2..3 : \E i \in Shown(buttons[b].visible) :
          i < Len(traces) /\ traces[i].text # <<>>

\* C2: for every input with at least one parsed edge the trace list has
\* 2 + 2 * (number of distinct normalized themes over all rows) + 1 entries:
\* aggregate weight 2, aggregate weight 3, one (weight 2, weight 3) pair per
\* theme in ascending theme order, the node trace last; whatever the number
\* of edges a filter matches.
C2_TraceList ==
    TracesBuilt =>
        /\ Len(traces) = 2 + 2 * Cardinality(RowThemes) + 1
        /\ traces[1] = make_edge_trace(G, pos, AllFilter, 2, NameSuffix(AllLabel, 2))
        /\ traces[2] = make_edge_trace(G, pos, AllFilter, 3, NameSuffix(AllLabel, 3))
        /\ \A t \in RowThemes : \A w \in {2, 3} : traces[SlotOf(t, w)] = TraceFor(t, w)
        /\ traces[Len(traces)] = NodeTrace(G, pos)

\* two themes of which the later in sort order comes first in the file, and
\* a per-theme trace without any edge
C2_Witness ==
    /\ TracesBuilt
    /\ Len(traces) = 7
    /\ edges[1].themes = <<<<"b">>, <<"a">>>>
    /\ \E i \in 3..6 : traces[i].text = <<>>

\* the trace holds the line segment between the positions of a and b
HasSegment(tr, a, b) ==
    \E j \in 1..(Len(tr.x) \div 3) :
        {<<tr.x[3 * j - 2], tr.y[3 * j - 2]>>, <<tr.x[3 * j - 1], tr.y[3 * j - 1]>>}
            = {DictGet(pos, a), DictGet(pos, b)}

\* the edge trace (from its name) of label l and weight w
TraceNamed(l, w) ==
    traces[CHOOSE i \in 1..(Len(traces) - 1) : traces[i].name.suffix = NameSuffix(l, w)]

\* C3: an edge of the graph has a line segment in the trace of (theme T,
\* weight w), w in {2, 3}, if and only if T is among the edge's themes and
\* the edge's weight is w, and in the aggregate trace of weight w if and
\* only if its weight is w; an edge of weight 1 is in no edge trace.
C3_EdgeInTrace ==
    TracesBuilt =>
        LET es == Edges(G)
        IN  \A k \in 1..Len(es) :
                LET e == es[k]
                IN  /\ \A w \in {2, 3} :
                          /\ HasSegment(TraceNamed(AllLabel, w), e.u, e.v)
                                <=> e.data["weight"] = w
                          /\ \A t \in RowThemes :
                                HasSegment(TraceNamed(t, w), e.u, e.v)
                                    <=> (t \in Range(e.data["themes"]) /\ e.data["weight"] = w)
                    /\ e.data["weight"] = 1 =>
                          \A i \in 1..(Len(traces) - 1) : ~HasSegment(traces[i], e.u, e.v)

\* an edge of weight 1 that carries a theme, beside an edge of weight 3
\* that is drawn in the trace of one of its themes
C3_Witness ==
    /\ TracesBuilt
    /\ \E k \in 1..Len(Edges(G)) :
          Edges(G)[k].data["weight"] = 1 /\ Edges(G)[k].data["themes"] # <<>>
    /\ \E k \in 1..Len(Edges(G)) : \E t \in RowThemes :
          /\ Edges(G)[k].data["weight"] = 3
          /\ HasSegment(TraceNamed(t, 3), Edges(G)[k].u, Edges(G)[k].v)

\* some edge of the graph passes the theme test (t = AllLabel: every edge)
\* and has weight w
Matches(l, w) ==
    LET es == Edges(G)
    IN  \E k \in 1..Len(es) :
            /\ es[k].data["weight"] = w
            /\ l = AllLabel \/ l \in Range(es[k].data["themes"])

\* C7: a (filter, weight) combination that matches no edge still has its
\* trace, at its normal place in the list, and that trace is marked not
\* visible; no trace is left out.
C7_EmptyTraceKept ==
    TracesBuilt =>
        /\ Len(traces) = 2 + 2 * Cardinality(RowThemes) + 1
        /\ \A w \in {2, 3} :
              /\ traces[w - 1].name.suffix = NameSuffix(AllLabel, w)
              /\ ~Matches(AllLabel, w) =>
                    traces[w - 1].visible = FALSE /\ traces[w - 1].x = <<None>>
              /\ \A t \in RowThemes :
                    /\ traces[SlotOf(t, w)].name.suffix = NameSuffix(t, w)
                    /\ ~Matches(t, w) =>
                          /\ traces[SlotOf(t, w)].visible = FALSE
                          /\ traces[SlotOf(t, w)].x = <<None>>

\* theme b has lost its only edge to a later line for the same pair, theme
\* a is only on an edge of weight 1, and no edge has weight 2
C7_Witness ==
    /\ TracesBuilt
    /\ Len(edges) = 2
    /\ <<"b">> \in Range(edges[1].themes)
    /\ edges[2].themes = <<<<"a">>>>
    /\ edges[2].w = 1
    /\ Len(Edges(G)) = 1
    /\ traces[SlotOf(<<"b">>, 3)].visible = FALSE
    /\ traces[1].visible = FALSE

----------------------------------------------------------------------------
(* Properties of the graph and of the layout *)

\* build_graph has returned
GraphBuilt ==
    pc \in {"layout", "traces", "menu", "write", "done"} \/ (pc = "raised" /\ G # EmptyGraph)

\* positions has returned
LayoutDone == pc \in {"traces", "menu", "write", "done"} \/ (pc = "raised" /\ pos # <<>>)

\* the titles the edge records name
Titles == {edges[i].src : i \in 1..Len(edges)} \cup {edges[i].tgt : i \in 1..Len(edges)}

\* the records that name the pair a, b, in either direction
Naming(a, b) == {i \in 1..Len(edges) : {edges[i].src, edges[i].tgt} = {a, b}}

\* the last of a non-empty set of record numbers
Last(I) == CHOOSE i \in I : \A j \in I : j <= i

\* the attributes record i gives its edge
AttrsOf(i) == [weight |-> edges[i].w, themes |-> edges[i].themes, note |-> edges[i].note]

\* C4: after build_graph the graph holds at most one edge per pair of
\* titles, the pair being unordered, and the edge's weight, themes and note
\* are exactly those of the last record that names the pair in either
\* direction; nothing of an earlier record is merged in.
C4_LastRecordWins ==
    GraphBuilt =>
        LET es == Edges(G)
        IN  \A a \in Titles : \A b \in Titles :
                LET found == {k \in 1..Len(es) : {es[k].u, es[k].v} = {a, b}}
                    named == Naming(a, b)
                    nbrs  == DictGet(G.adj, a)
                IN  /\ Cardinality(found) = IF named = {} THEN 0 ELSE 1
                    /\ \A k \in found : es[k].data = AttrsOf(Last(named))
                    /\ Cardinality({j \in 1..Len(nbrs) : nbrs[j].k = b})
                          = IF named = {} THEN 0 ELSE 1
                    /\ named # {} => DictGet(nbrs, b) = AttrsOf(Last(named))

\* a pair named twice, the second time in the reverse direction and with
\* another weight, other themes and another note
C4_Witness ==
    /\ GraphBuilt
    /\ Len(edges) = 2
    /\ edges[1].src = edges[2].tgt /\ edges[1].tgt = edges[2].src
    /\ edges[1].src # edges[1].tgt
    /\ edges[1].w # edges[2].w
    /\ edges[1].themes # edges[2].themes
    /\ edges[1].note # edges[2].note
    /\ Len(Edges(G)) = 1

\* the year of the last record field that names title t: the target field
\* of a record comes after its source field
LastYear(t) ==
    LET i == Last({j \in 1..Len(edges) : t \in {edges[j].src, edges[j].tgt}})
    IN  IF edges[i].tgt = t THEN edges[i].ty ELSE edges[i].sy

\* C5: every title a record names has exactly one node, one year and one
\* position after build_graph and positions, no other node exists, and the
\* node's horizontal coordinate is the year given by the last record field
\* that names the title: last write wins across rows, and within a row the
\* target is written after the source.
C5_LastYearWins ==
    LayoutDone =>
        /\ Range(Nodes(G)) = Titles
        /\ \A t \in Titles :
              /\ Cardinality({i \in 1..Len(G.node) : G.node[i].k = t}) = 1
              /\ Cardinality({i \in 1..Len(pos) : pos[i].k = t}) = 1
              /\ DOMAIN DictGet(G.node, t) = {"year"}
              /\ YearOf(G, t) = LastYear(t)
              /\ DictGet(pos, t)[1] = LastYear(t)

\* a title whose own line is a self-loop with two different years, and a
\* title that two lines give different years
C5_Witness ==
    /\ LayoutDone
    /\ \E i \in 1..Len(edges) : edges[i].src = edges[i].tgt /\ edges[i].sy # edges[i].ty
    /\ \E i \in 1..Len(edges) : \E j \in (i + 1)..Len(edges) :
          /\ edges[i].src = edges[j].src
          /\ edges[i].src # edges[j].tgt
          /\ edges[i].sy # edges[j].sy

\* the place of the first record field that names title t
FirstSeen(t) ==
    LET F == {2 * i - 1 : i \in {j \in 1..Len(edges) : edges[j].src = t}}
             \cup {2 * i : i \in {j \in 1..Len(edges) : edges[j].tgt = t}}
    IN  CHOOSE f \in F : \A h \in F : f <= h

\* the vertical coordinate of title t
YPos(t) == DictGet(pos, t)[2]

\* C6: the vertical coordinates positions(G) gives are a permutation of
\* 0..n-1, a node of smaller year has the smaller coordinate, and of two
\* nodes of equal year the one first inserted into the graph has the
\* smaller coordinate.
C6_RankByYear ==
    LayoutDone =>
        /\ {YPos(t) : t \in Titles} = 0..(Cardinality(Titles) - 1)
        /\ Len(pos) = Cardinality(Titles)
        /\ \A a \in Titles : \A b \in Titles :
              /\ YearOf(G, a) < YearOf(G, b) => YPos(a) < YPos(b)
              /\ (YearOf(G, a) = YearOf(G, b) /\ FirstSeen(a) < FirstSeen(b))
                    => YPos(a) < YPos(b)

\* three nodes: two of equal year in insertion order, behind a node of
\* smaller year that was inserted last
C6_Witness ==
    /\ LayoutDone
    /\ Cardinality(Titles) = 3
    /\ \E a \in Titles : \E b \in Titles : \E c \in Titles :
          /\ FirstSeen(a) < FirstSeen(b) /\ FirstSeen(b) < FirstSeen(c)
          /\ YearOf(G, a) = YearOf(G, b) /\ YearOf(G, c) < YearOf(G, a)
          /\ YPos(c) = 0 /\ YPos(a) = 1 /\ YPos(b) = 2

\* the arrow between the two titles of a hover block
Arrow == <<" ", "->", " ">>

\* C10: the directional label of every hover block make_edge_trace emits
\* reads "S -> T" with S the source title and T the target title of the
\* row that defines the edge (the last row naming the pair), whatever the
\* order in which the rows introduce the titles.
C10_LabelSourceToTarget ==
    TracesBuilt =>
        \A i \in 1..(Len(traces) - 1) : \A j \in 1..Len(traces[i].text) :
            \E a \in Titles : \E b \in Titles :
                /\ Naming(a, b) # {}
                /\ traces[i].text[j].label =
                      edges[Last(Naming(a, b))].src \o Arrow \o edges[Last(Naming(a, b))].tgt

----------------------------------------------------------------------------
(* Properties of loading and of the run's end *)

\* the run has ended
Ended == pc \in {"exited", "raised", "done"}

\* some stage after the load has run
StagesStarted ==
    G # EmptyGraph \/ pos # <<>> \/ traces # <<>> \/ buttons # <<>> \/ all_themes # <<>>

\* what C8 says of a state
C8_State ==
    /\ (fileExists /\ pc \in {"exists", "load"}) \/ ~fileExists => edges = <<>>
    /\ ~fileExists /\ Ended =>
          pc = "exited" /\ exitCode = 1 /\ stderr = "CSV not found" /\ ~StagesStarted
    /\ fileExists /\ Ended /\ LoadRaises(header, csv) =>
          pc = "raised" /\ edges = <<>> /\ ~StagesStarted /\ exitCode # 0
    /\ fileExists /\ Ended /\ ~LoadRaises(header, csv) /\ csv = <<>> =>
          pc = "exited" /\ exitCode = 1 /\ stderr = "No edges found" /\ ~StagesStarted
    /\ pc = "exited" => exitCode = 1 /\ ~StagesStarted
    /\ pc = "done" =>
          /\ exitCode = 0
          /\ outFile = [exists |-> TRUE, traces |-> traces, buttons |-> buttons]
          /\ Len(outFile.buttons) >= 1
          /\ Len(outFile.traces) = 2 * Len(outFile.buttons) + 1
          /\ fileExists /\ edges # <<>>

\* what C8 says of a step: only the step that ends a run with status 0
\* changes the output file
C8_Step == outFile' # outFile => pc = "write" /\ pc' = "done" /\ exitCode' = 0

\* C8: a run that hits an error ends without writing the output file: with
\* edges.csv missing, or present with zero parsed edges, it ends with exit
\* status 1 before the graph, layout, trace and render stages; with a
\* malformed row it ends with an uncaught error in the load.  The file is
\* written only by the last step of a run whose earlier stages all
\* completed, and then completely.
C8_NoPartialOutput == []C8_State /\ [][C8_Step]_vars

\* a run over an existing file without a parsed edge has ended with status
\* 1 and the earlier output file is as it was
C8_Witness ==
    /\ pc = "exited"
    /\ fileExists
    /\ stderr = "No edges found"
    /\ outFile = OldFile

\* no two elements of the sequence are equal
NoRepeat(s) == \A i \in 1..Len(s) : \A j \in 1..Len(s) : s[i] = s[j] => i = j

\* the themes cell record i was read from
ThemesCell(i) == CellOr(header, csv[i], "themes")

\* C9: the themes of every edge record form a set of normalized themes:
\* each is the trimmed, lowercased form of a semicolon-separated token of
\* the cell, none is empty, none occurs twice in the record (also when the
\* cell repeats a token or holds tokens that differ only in case or in
\* surrounding whitespace), and an empty cell yields no theme; normalizing
\* a normalized theme returns it unchanged.
C9_ThemesFormSet ==
    edges # <<>> =>
        \A i \in 1..Len(edges) :
            /\ \A t \in Range(edges[i].themes) :
                  /\ t # <<>>
                  /\ \E tok \in Range(Split(ThemesCell(i), ";")) : t = Lower(Strip(tok))
                  /\ normalize_theme(t) = t
            /\ \A tok \in Range(Split(ThemesCell(i), ";")) :
                  Strip(tok) # <<>> => Lower(Strip(tok)) \in Range(edges[i].themes)
            /\ ThemesCell(i) = <<>> => edges[i].themes = <<>>
            /\ NoRepeat(edges[i].themes)

====
